---------------------------- MODULE Spec2Model ----------------------------
(***************************************************************************)
(* A state-machine model of rkflashtool.c (54shady/rkflashtool): one       *)
(* invocation of main() after the device was opened and claimed, the       *)
(* device at the other end of the bulk endpoints, stdin and stdout.        *)
(*                                                                         *)
(* Byte sizes are scaled: a 512-byte sector is SectorBytes bytes, so that  *)
(* RKFT_BLOCKSIZE (32 sectors) is 32 * SectorBytes bytes.  Sector counts,  *)
(* opcodes, flash offsets and the 8 + 4 bytes of parameter overhead keep   *)
(* the values of the source.  32-bit C integers are TLC integers in        *)
(* -2^31 .. 2^31-1 with explicit wrap-around (Add32, Sub32).               *)
(***************************************************************************)
EXTENDS Integers, Sequences, FiniteSets, TLC

(* ------------------------------ bounds -------------------------------- *)

\* Bytes that stand for one 512-byte sector (the ">>9" of RKFT_OFF_INCR).
SectorBytes == 4

\* Transport calls that may fail in one run.
MaxXferFail == 1

\* Irregular stdin/stdout results (short read, read error, write error) in one run.
MaxIoFault == 1

\* Windows one transfer loop is followed for (a size read from a stale buffer
\* can ask for millions of them).
MaxWindows == 5

(* ------------------------- program constants -------------------------- *)

RKFT_OFF_INCR == 32

RKFT_BLOCKSIZE == RKFT_OFF_INCR * SectorBytes

RKFT_IDB_DATASIZE == SectorBytes

\* 0x210 = 0x200 + 16: one sector and a tail of 1/32 sector, at least one byte.
RKFT_IDB_BLOCKSIZE == SectorBytes + ((SectorBytes + 31) \div 32)

RKFT_IDB_INCR == 32

MAX_PARAM_LENGTH == (128 * SectorBytes) - 12

SDRAM_BASE_ADDRESS == 1610612736

\* The 4096-byte chunk of the loader actions: 8 sectors.
LOADER_CHUNK == 8 * SectorBytes

\* recv_buf(512) of the NAND info.
NAND_INFO_LEN == SectorBytes

CHIP_INFO_LEN == 16

FLASH_ID_LEN == 5

PARAM_STEP == 1024

PARAM_END == 8192

\* memset(ibuf, RKFT_IDB_BLOCKSIZE, 0xff): the value is (unsigned char)0x210,
\* the count is 0xff bytes (scaled with the sector).
IDB_FILL_VALUE == 16

IDB_FILL_COUNT == (255 * SectorBytes) \div 512

ERASE_BYTE == 255

RKFT_CMD_TESTUNITREADY == "TESTUNITREADY"
RKFT_CMD_READFLASHID == "READFLASHID"
RKFT_CMD_READFLASHINFO == "READFLASHINFO"
RKFT_CMD_READCHIPINFO == "READCHIPINFO"
RKFT_CMD_RESETDEVICE == "RESETDEVICE"
RKFT_CMD_READSECTOR == "READSECTOR"
RKFT_CMD_READLBA == "READLBA"
RKFT_CMD_READSDRAM == "READSDRAM"
RKFT_CMD_WRITESECTOR == "WRITESECTOR"
RKFT_CMD_WRITELBA == "WRITELBA"
RKFT_CMD_WRITESDRAM == "WRITESDRAM"
RKFT_CMD_EXECUTESDRAM == "EXECUTESDRAM"

\* The 32-bit value of an opcode, most significant byte first.
OpCode(op) ==
    CASE op = RKFT_CMD_TESTUNITREADY -> << 128, 0, 6, 0 >>
      [] op = RKFT_CMD_READFLASHID -> << 128, 0, 6, 1 >>
      [] op = RKFT_CMD_READFLASHINFO -> << 128, 0, 6, 26 >>
      [] op = RKFT_CMD_READCHIPINFO -> << 128, 0, 6, 27 >>
      [] op = RKFT_CMD_RESETDEVICE -> << 0, 0, 6, 255 >>
      [] op = RKFT_CMD_READSECTOR -> << 128, 0, 10, 4 >>
      [] op = RKFT_CMD_READLBA -> << 128, 0, 10, 20 >>
      [] op = RKFT_CMD_READSDRAM -> << 128, 0, 10, 23 >>
      [] op = RKFT_CMD_WRITESECTOR -> << 0, 0, 10, 5 >>
      [] op = RKFT_CMD_WRITELBA -> << 0, 0, 10, 21 >>
      [] op = RKFT_CMD_WRITESDRAM -> << 0, 0, 10, 24 >>
      [] op = RKFT_CMD_EXECUTESDRAM -> << 0, 0, 10, 25 >>

\* memset(cbw, 0, 31); sizeof(cbw)
CBW_LEN == 31

\* "USBC"
STR_USBC == << 85, 83, 66, 67 >>

\* sizeof(csw)
CSW_LEN == 13

\* "USBS", the signature of a status frame.
STR_USBS == << 85, 83, 66, 83 >>

(* --------------------------- 32-bit integers -------------------------- *)

\* x mod 2^31 for a C int x.
NonNeg31(x) == IF x >= 0 THEN x ELSE (x + 2147483647) + 1

\* The upper and lower 16 bits of the two's complement pattern of x.
Hi16(x) == (NonNeg31(x) \div 65536) + (IF x < 0 THEN 32768 ELSE 0)

Lo16(x) == NonNeg31(x) % 65536

FromHL(h, l) ==
    IF h >= 32768 THEN (((h - 32768) * 65536 + l) - 2147483647) - 1
    ELSE (h * 65536) + l

\* a + b and a - b in 32-bit arithmetic.
Add32(a, b) ==
    LET l == Lo16(a) + Lo16(b)
        h == Hi16(a) + Hi16(b) + (l \div 65536)
    IN  FromHL(h % 65536, l % 65536)

Sub32(a, b) ==
    LET l == (Lo16(a) - Lo16(b)) + 65536
        h == (Hi16(a) - Hi16(b)) + 65535 + (l \div 65536)
    IN  FromHL(h % 65536, l % 65536)

\* The four bytes of x, least significant first (a uint32_t store on the host).
LE32Bytes(x) ==
    << Lo16(x) % 256, Lo16(x) \div 256, Hi16(x) % 256, Hi16(x) \div 256 >>

\* The four bytes of x, most significant first, and the two bytes of a
\* uint16_t (SETBE32, SETBE16).
BE32Bytes(x) ==
    << Hi16(x) \div 256, Hi16(x) % 256, Lo16(x) \div 256, Lo16(x) % 256 >>

BE16Bytes(x) == << (x % 65536) \div 256, x % 256 >>

\* The int read from four little-endian bytes.
LE32Int(b) == FromHL((b[4] * 256) + b[3], (b[2] * 256) + b[1])

(* -------------------------------- CRC --------------------------------- *)

RECURSIVE Xor8(_, _)
Xor8(a, b) ==
    IF a = 0 THEN b
    ELSE IF b = 0 THEN a
    ELSE (((a % 2) + (b % 2)) % 2) + 2 * Xor8(a \div 2, b \div 2)

\* A CRC register is a tuple of bytes, most significant first.
Shl32(c) ==
    << ((c[1] * 2) + (c[2] \div 128)) % 256,
       ((c[2] * 2) + (c[3] \div 128)) % 256,
       ((c[3] * 2) + (c[4] \div 128)) % 256,
       (c[4] * 2) % 256 >>

CRC32_POLY == << 4, 193, 13, 183 >>

Crc32Bit(c) ==
    LET s == Shl32(c)
    IN  IF c[1] >= 128
        THEN << Xor8(s[1], CRC32_POLY[1]), Xor8(s[2], CRC32_POLY[2]),
                Xor8(s[3], CRC32_POLY[3]), Xor8(s[4], CRC32_POLY[4]) >>
        ELSE s

RECURSIVE Crc32Bits(_, _)
Crc32Bits(c, n) == IF n = 0 THEN c ELSE Crc32Bits(Crc32Bit(c), n - 1)

Crc32Byte(c, b) == Crc32Bits(<< Xor8(c[1], b), c[2], c[3], c[4] >>, 8)

\* The register after the bytes s[lo..hi], taken in order (the range is
\* halved to keep the evaluation shallow).
RECURSIVE Crc32Fold(_, _, _, _)
Crc32Fold(c, s, lo, hi) ==
    IF lo > hi THEN c
    ELSE IF lo = hi THEN Crc32Byte(c, s[lo])
    ELSE LET mid == (lo + hi) \div 2
             left == Crc32Fold(c, s, lo, mid)
         IN  IF left = << >> THEN left ELSE Crc32Fold(left, s, mid + 1, hi)

\* rkcrc32(crc, buf, size): the register after the bytes of s.
rkcrc32(crc, s) == Crc32Fold(crc, s, 1, Len(s))

Shl16(c) == << ((c[1] * 2) + (c[2] \div 128)) % 256, (c[2] * 2) % 256 >>

CRC16_POLY == << 16, 33 >>

Crc16Bit(c) ==
    LET s == Shl16(c)
    IN  IF c[1] >= 128
        THEN << Xor8(s[1], CRC16_POLY[1]), Xor8(s[2], CRC16_POLY[2]) >>
        ELSE s

RECURSIVE Crc16Bits(_, _)
Crc16Bits(c, n) == IF n = 0 THEN c ELSE Crc16Bits(Crc16Bit(c), n - 1)

Crc16Byte(c, b) == Crc16Bits(<< Xor8(c[1], b), c[2] >>, 8)

RECURSIVE Crc16Fold(_, _, _, _)
Crc16Fold(c, s, lo, hi) ==
    IF lo > hi THEN c
    ELSE IF lo = hi THEN Crc16Byte(c, s[lo])
    ELSE LET mid == (lo + hi) \div 2
             left == Crc16Fold(c, s, lo, mid)
         IN  IF left = << >> THEN left ELSE Crc16Fold(left, s, mid + 1, hi)

\* rkcrc16(crc, buf, size)
rkcrc16(crc, s) == Crc16Fold(crc, s, 1, Len(s))

\* PUT32LE(p, crc): the four bytes stored, least significant first.
PUT32LE(c) == << c[4], c[3], c[2], c[1] >>

\* A uint32_t loaded from four little-endian bytes, as a CRC register.
GET32LE(b) == << b[4], b[3], b[2], b[1] >>

(* ------------------------------ C strings ----------------------------- *)

\* Memory is a byte sequence; addresses are 0-based, so *(m + i) is m[i + 1].
Byte(m, i) == m[i + 1]

Slice(m, from, to) == SubSeq(m, from + 1, to)

\* The address of the first NUL at or after `from`, or Len(m) when the
\* string is not terminated inside m.
StrEnd(m, from) ==
    LET nuls == {i \in from..(Len(m) - 1) : Byte(m, i) = 0}
    IN  IF nuls = {} THEN Len(m)
        ELSE CHOOSE i \in nuls : \A j \in nuls : i <= j

MatchAt(m, i, pat) ==
    /\ i + Len(pat) <= Len(m)
    /\ \A k \in 1..Len(pat) : Byte(m, i + k - 1) = pat[k]

\* A variant that returns the last occurrence.
strstr_last(m, from, to, pat) ==
    LET hits == {i \in from..(to - Len(pat)) : MatchAt(m, i, pat)}
    IN  IF hits = {} THEN -1
        ELSE CHOOSE i \in hits : \A j \in hits : i >= j

\* strstr(m + from, pat) on the string that ends at `to`: address of the
\* first occurrence, or -1 (NULL).
strstr(m, from, to, pat) ==
    LET hits == {i \in from..(to - Len(pat)) : MatchAt(m, i, pat)}
    IN  IF hits = {} THEN -1
        ELSE CHOOSE i \in hits : \A j \in hits : i <= j

\* strrchr(m + from, ch) on the string that ends at `to`: address of the
\* last occurrence, or -1 (NULL).
strrchr(m, from, to, ch) ==
    LET hits == {i \in from..(to - 1) : Byte(m, i) = ch}
    IN  IF hits = {} THEN -1
        ELSE CHOOSE i \in hits : \A j \in hits : i >= j

\* m with the bytes bs stored at address at; what does not fit in m is lost.
Poke(m, at, bs) ==
    IF at >= Len(m) THEN m
    ELSE SubSeq(m, 1, at)
            \o SubSeq(bs, 1, IF at + Len(bs) > Len(m) THEN Len(m) - at ELSE Len(bs))
            \o SubSeq(m, at + Len(bs) + 1, Len(m))

IsSpace(ch) == ch \in {32, 9, 10, 11, 12, 13}

\* The value of a digit character in base 36, or 99.
DigitVal(ch) ==
    IF ch >= 48 /\ ch <= 57 THEN ch - 48
    ELSE IF ch >= 97 /\ ch <= 122 THEN (ch - 97) + 10
    ELSE IF ch >= 65 /\ ch <= 90 THEN (ch - 65) + 10
    ELSE 99

RECURSIVE SkipSpace(_, _, _)
SkipSpace(m, i, to) ==
    IF i < to /\ IsSpace(Byte(m, i)) THEN SkipSpace(m, i + 1, to) ELSE i

RECURSIVE Digits(_, _, _, _, _)
Digits(m, i, to, base, acc) ==
    IF i < to /\ DigitVal(Byte(m, i)) < base
    THEN Digits(m, i + 1, to, base, (acc * base) + DigitVal(Byte(m, i)))
    ELSE acc

\* strtoul(m + from, NULL, 0) on the string that ends at `to`, converted to
\* int.  The numbers of the modelled tables have at most seven hex digits.
strtoul(m, from, to) ==
    LET s  == SkipSpace(m, from, to)
        neg == s < to /\ Byte(m, s) = 45
        d  == IF s < to /\ Byte(m, s) \in {43, 45} THEN s + 1 ELSE s
        hex == /\ d + 2 < to
               /\ Byte(m, d) = 48
               /\ Byte(m, d + 1) \in {120, 88}
               /\ DigitVal(Byte(m, d + 2)) < 16
        oct == ~hex /\ d < to /\ Byte(m, d) = 48
        v  == IF hex THEN Digits(m, d + 2, to, 16, 0)
              ELSE IF oct THEN Digits(m, d, to, 8, 0)
              ELSE Digits(m, d, to, 10, 0)
    IN  IF neg THEN Sub32(0, v) ELSE v

(* ------------------------------- state -------------------------------- *)

VARIABLES
    action,     \* argv[1][0]
    partname,   \* the partition name as bytes, or <<>> when none was given
    flag,       \* reboot flag of action 'b'
    pc,         \* position in main()
    offset,     \* int offset
    size,       \* int size
    sizeRead,   \* int sizeRead / ssize_t nr
    crc16,      \* uint16_t crc16 of the loader actions
    buf,        \* uint8_t buf[RKFT_BLOCKSIZE]
    ibuf,       \* uint8_t ibuf[RKFT_IDB_BLOCKSIZE]
    inPos,      \* bytes of stdin consumed
    inLen,      \* length of the stdin stream
    out,        \* bytes written to stdout
    reports,    \* messages written to stderr, in order
    progress,   \* offsets reported by infocr, in order
    log,        \* transport calls issued, in order
    cbwOk,      \* whether the last command frame reached the device
    recvOk,     \* whether the last recv_buf filled buf
    nfail,      \* transport calls that failed (over both invocations)
    afterFail,  \* a command frame or data phase was issued after a failed call
    staleOut,   \* buf was forwarded to stdout after its recv_buf failed
    nio,        \* irregular stdin/stdout results so far
    ub,         \* an access outside buf happened
    oobByte,    \* what the memory behind buf reads as
    dev,        \* the device: sector block at LBA 0 and the NAND size
    teardown,   \* times libusb_release_interface/libusb_close ran
    exitcode,   \* -1 while running
    resolveLog, \* Len(log) when partition resolution failed, or -1
    run,        \* 1 for the first invocation, 2 for the one after it
    offset0,    \* offset when the second switch was entered
    size0,      \* size when the second switch was entered
    written,    \* the payload the parameter write flow of run 1 read
    rseed,      \* where in libc's sequence random() starts
    shortAt,    \* write frames sent when a read of 'w' first came short, or -1
    csw,        \* uint8_t csw[USB_BULK_CS_WRAP_LEN]
    twin        \* the first of two runs on the same input, kept for the second

vars == << action, partname, flag, pc, offset, size, sizeRead, crc16, buf, ibuf,
           inPos, inLen, out, reports, progress, log, cbwOk, recvOk, nfail,
           afterFail, staleOut, nio, ub, oobByte, dev, teardown, exitcode,
           resolveLog, run, offset0, size0, written, rseed, shortAt, csw,
           twin >>

\* What no step of a run changes.
argv == << action, partname, flag, inLen, oobByte, run, offset0, size0, written,
          rseed, twin >>

\* The transport side.
usb == << log, cbwOk, recvOk, nfail, afterFail, dev, csw >>

\* stdin and stdout.
stdio == << inPos, out, nio, staleOut, shortAt >>

regs == << offset, size, sizeRead, crc16 >>

mem == << buf, ibuf, ub >>

msgs == << reports, progress >>

term == << teardown, exitcode, resolveLog >>

(* --------------------------- input and device -------------------------- *)

\* n bytes b.
Rep(b, n) == SubSeq([i \in 1..n |-> b], 1, n)

\* Byte i (0-based) of the stdin stream.
InByte(i) == ((i * 7) % 250) + 1

InBytes(from, n) == SubSeq([i \in 1..n |-> InByte((from + i) - 1)], 1, n)

\* What the device returns for sectors, RAM and ID blocks other than LBA 0.
DEV_FILL == 165

Pad(s, n) == IF Len(s) >= n THEN SubSeq(s, 1, n) ELSE s \o Rep(0, n - Len(s))

STR_PARM == << 80, 65, 82, 77 >>

STR_MTDPARTS == << 109, 116, 100, 112, 97, 114, 116, 115, 61 >>

\* (boot)@0x2000(boot),0x4000 (system)@0x6000(system)-<space>
TABLE_LITERAL ==
    << 40, 98, 111, 111, 116, 41, 64, 48, 120, 50, 48, 48, 48, 40, 98, 111,
       111, 116, 41, 44, 48, 120, 52, 48, 48, 48, 32, 40, 115, 121, 115, 116,
       101, 109, 41, 64, 48, 120, 54, 48, 48, 48, 40, 115, 121, 115, 116, 101,
       109, 41, 45, 32 >>

\* mtdparts=x:0x40@0x2000(boot),-@0x6000(system)
TABLE_MTD ==
    << 109, 116, 100, 112, 97, 114, 116, 115, 61, 120, 58, 48, 120, 52, 48,
       64, 48, 120, 50, 48, 48, 48, 40, 98, 111, 111, 116, 41, 44, 45, 64,
       48, 120, 54, 48, 48, 48, 40, 115, 121, 115, 116, 101, 109, 41 >>

NAME_BOOT == << 98, 111, 111, 116 >>

NAME_SYSTEM == << 115, 121, 115, 116, 101, 109 >>

NAME_MISSING == << 109, 105, 115, 115, 105, 110, 103 >>

CRC_ZERO == << 0, 0, 0, 0 >>

\* mtdparts=rk-nand:0x40@0x2000(boot),0x80@0x4000(system)
TABLE_DASH ==
    << 109, 116, 100, 112, 97, 114, 116, 115, 61, 114, 107, 45,
       110, 97, 110, 100, 58, 48, 120, 52, 48, 64, 48, 120,
       50, 48, 48, 48, 40, 98, 111, 111, 116, 41, 44, 48,
       120, 56, 48, 64, 48, 120, 52, 48, 48, 48, 40, 115,
       121, 115, 116, 101, 109, 41 >>

\* A sector block holding magic, length field, payload and trailer.
MkBlob(len, payload, trailer) ==
    Pad(STR_PARM \o LE32Bytes(len) \o payload \o trailer, RKFT_BLOCKSIZE)

GoodBlob(payload) ==
    MkBlob(Len(payload), payload, PUT32LE(rkcrc32(CRC_ZERO, payload)))

BadCrcBlob(payload) ==
    LET c == rkcrc32(CRC_ZERO, payload)
    IN  MkBlob(Len(payload), payload, PUT32LE(<< c[1], c[2], c[3], (c[4] + 1) % 256 >>))

\* A block whose length field is len, with a patterned payload area.
LenBlob(len) ==
    MkBlob(len, InBytes(0, RKFT_BLOCKSIZE - 8), << >>)

BlobMtd == GoodBlob(TABLE_MTD)

BlobLiteral == GoodBlob(STR_MTDPARTS \o TABLE_LITERAL)

BlobNoTable == GoodBlob(TABLE_LITERAL)

BlobBadCrc == BadCrcBlob(TABLE_MTD)

BlobFit == GoodBlob(InBytes(0, RKFT_BLOCKSIZE - 12))

BlobEmpty == GoodBlob(<< >>)

BlobDash == GoodBlob(TABLE_DASH)

ParamBlobs ==
    { BlobMtd, BlobBadCrc, BlobFit, BlobEmpty,
      LenBlob(RKFT_BLOCKSIZE - 11), LenBlob(MAX_PARAM_LENGTH),
      LenBlob(MAX_PARAM_LENGTH + 1), LenBlob(-1) }

PartBlobs ==
    { BlobMtd, BlobLiteral, BlobNoTable, BlobDash, BlobBadCrc,
      LenBlob(MAX_PARAM_LENGTH + 1) }

PartNames == { NAME_BOOT, NAME_SYSTEM, NAME_MISSING }

\* NAND size in sectors: 0x6000 + 70.
FLASH_SIZE == 24646

OobBytes == { 0, 255 }

\* The response of the device to a read command, n bytes long.
DevData(op, off, n) ==
    IF op = RKFT_CMD_READLBA /\ off = 0 THEN Pad(dev.param, n)
    ELSE IF op = RKFT_CMD_READFLASHINFO THEN Pad(LE32Bytes(dev.flashSize), n)
    ELSE Rep(DEV_FILL, n)

(* ------------------------------ arguments ------------------------------ *)

Cfg(a, name, f, o, s, n) ==
    [action |-> a, partname |-> name, flag |-> f, offset |-> o, size |-> s,
     inLen |-> n]

B == RKFT_BLOCKSIZE

Configs ==
    {Cfg("b", << >>, f, 0, 0, 0) : f \in {0, 1}}
    \cup {Cfg(a, << >>, 0, 0, 0, n) : a \in {"l", "L"},
            n \in {0, 5, LOADER_CHUNK, LOADER_CHUNK + 3, 2 * LOADER_CHUNK}}
    \cup {Cfg("r", << >>, 0, o, s, 0) : o \in {0, 64}, s \in {0, 10, 32, 70}}
    \cup {Cfg("w", << >>, 0, 0, s, n) : s \in {0, 10, 64, 128},
            n \in {0, B, 3 * B, (3 * B) + 5, 4 * B}}
    \cup {Cfg("e", << >>, 0, o, s, 0) : o \in {0, 64}, s \in {0, 10, 70}}
    \cup {Cfg("m", << >>, 0, o, s, 0) :
            o \in {SDRAM_BASE_ADDRESS, SDRAM_BASE_ADDRESS + 16, 0},
            s \in {0, 10, B, (2 * B) + 5}}
    \cup {Cfg("M", << >>, 0, SDRAM_BASE_ADDRESS, s, n) : s \in {0, 10, 4 * B},
            n \in {0, B, 3 * B, (3 * B) + 5}}
    \cup {Cfg("B", << >>, 0, o, o + 16, 0) : o \in {0, SDRAM_BASE_ADDRESS}}
    \cup {Cfg("i", << >>, 0, o, s, 0) : o \in {0, 2}, s \in {0, 3, 32, 40}}
    \cup {Cfg("j", << >>, 0, 0, s, n) : s \in {0, 1, 3},
            n \in {0, RKFT_IDB_DATASIZE, 2 * RKFT_IDB_DATASIZE,
                   (2 * RKFT_IDB_DATASIZE) + 1, 3 * RKFT_IDB_DATASIZE}}
    \cup {Cfg(a, << >>, 0, 0, 1024, 0) : a \in {"n", "v", "p"}}
    \cup {Cfg("P", << >>, 0, 0, 1024, n) :
            n \in {0, 1, 5, B - 12, B - 11, B - 8, B + 3}}
    \cup {Cfg(a, name, 0, 0, 0, 2 * B) : a \in {"e", "r", "w"}, name \in PartNames}

\* The block at LBA 0 the device starts with, by action.
InitBlobs(c) ==
    IF c.action = "p" THEN ParamBlobs
    ELSE IF c.partname # << >> THEN PartBlobs
    ELSE { BlobMtd }

\* A fresh process: static buffers are zero.
Fresh(c) ==
    /\ action = c.action
    /\ partname = c.partname
    /\ flag = c.flag
    /\ offset = c.offset
    /\ size = c.size
    /\ inLen = c.inLen
    /\ pc = "start"
    /\ sizeRead = 0
    /\ crc16 = << 255, 255 >>
    /\ buf = Rep(0, RKFT_BLOCKSIZE)
    /\ ibuf = Rep(0, RKFT_IDB_BLOCKSIZE)
    /\ inPos = 0
    /\ shortAt = -1
    /\ csw = Rep(0, CSW_LEN)
    /\ out = << >>
    /\ reports = << >>
    /\ progress = << >>
    /\ log = << >>
    /\ cbwOk = TRUE
    /\ recvOk = TRUE
    /\ nfail = 0
    /\ afterFail = FALSE
    /\ staleOut = FALSE
    /\ nio = 0
    /\ ub = FALSE
    /\ teardown = 0
    /\ exitcode = -1
    /\ resolveLog = -1
    /\ offset0 = 0
    /\ size0 = 0

RandomSeeds == {0, 1}

Init ==
    \E c \in Configs :
        /\ Fresh(c)
        /\ \E blob \in InitBlobs(c) : dev = [param |-> blob, flashSize |-> FLASH_SIZE]
        /\ oobByte \in (IF c.action = "p" THEN OobBytes ELSE {0})
        /\ run = 1
        /\ written = << >>
        /\ rseed \in RandomSeeds
        /\ twin = [n |-> 0, dev |-> dev, offset |-> c.offset, size |-> c.size,
                   obs |-> << >>, csw |-> << >>]

(* ------------------------------ transport ------------------------------ *)

Ev(k, op, off, len, n, data) ==
    [k |-> k, op |-> op, off |-> off, len |-> len, flag |-> flag, n |-> n,
     data |-> data, tag |-> 0, frame |-> << >>]

\* Command frames sent so far: one call of random() each.
FramesSent == Cardinality({i \in 1..Len(log) : log[i].k \in {"cbw", "exec"}})

\* random(): the value of the call after k earlier ones.  The sequence is
\* libc's; every third value here is 0, so that "if (r)" goes both ways.
random(k) == IF (k + rseed) % 3 = 0 THEN 0 ELSE 16909060 + (65793 * k)

\* A variant that stores the offset one byte early.
cbw_frame_early(command, off, nsectors, fl, r) ==
    LET f0 == Poke(Rep(0, CBW_LEN), 0, STR_USBC)
        f1 == IF r # 0 THEN Poke(f0, 4, BE32Bytes(r)) ELSE f0
        f2 == IF off # 0 THEN Poke(f1, 16, BE32Bytes(off)) ELSE f1
        f3 == IF nsectors # 0 THEN Poke(f2, 22, BE16Bytes(nsectors)) ELSE f2
        f4 == Poke(f3, 12, OpCode(command))
    IN  IF fl # 0 THEN Poke(f4, 16, << fl >>) ELSE f4

\* The 31 bytes send_cbw builds: memset, "USBC", then the tag, the offset,
\* nsectors, the command and the flag, each only if it is not 0.
cbw_frame(command, off, nsectors, fl, r) ==
    LET f0 == Poke(Rep(0, CBW_LEN), 0, STR_USBC)
        f1 == IF r # 0 THEN Poke(f0, 4, BE32Bytes(r)) ELSE f0
        f2 == IF off # 0 THEN Poke(f1, 17, BE32Bytes(off)) ELSE f1
        f3 == IF nsectors # 0 THEN Poke(f2, 22, BE16Bytes(nsectors)) ELSE f2
        f4 == Poke(f3, 12, OpCode(command))
    IN  IF fl # 0 THEN Poke(f4, 16, << fl >>) ELSE f4

\* The 31 bytes send_exec builds: both addresses are 32-bit stores.
exec_frame(krnl_addr, parm_addr, r) ==
    LET f0 == Poke(Rep(0, CBW_LEN), 0, STR_USBC)
        f1 == IF r # 0 THEN Poke(f0, 4, BE32Bytes(r)) ELSE f0
        f2 == IF krnl_addr # 0 THEN Poke(f1, 17, BE32Bytes(krnl_addr)) ELSE f1
        f3 == IF parm_addr # 0 THEN Poke(f2, 22, BE32Bytes(parm_addr)) ELSE f2
    IN  Poke(f3, 12, OpCode(RKFT_CMD_EXECUTESDRAM))

\* libusb_bulk_transfer / libusb_control_transfer: the call succeeds or fails;
\* the return value is not looked at.
Xfer(ok, counts) ==
    /\ ok \in BOOLEAN
    /\ ~ok => (nfail < MaxXferFail /\ twin.n = 0)
    /\ nfail' = IF ok THEN nfail ELSE nfail + 1
    /\ afterFail' = (afterFail \/ (counts /\ nfail > 0))

\* send_cbw(command, offset, nsectors, flag); nsectors is a uint16_t.
send_cbw(op, off, nsectors) ==
    \E ok \in BOOLEAN :
        /\ Xfer(ok, TRUE)
        /\ log' = Append(log,
              [Ev("cbw", op, off, nsectors % 65536, CBW_LEN, << >>) EXCEPT
                  !.tag = random(FramesSent),
                  !.frame = cbw_frame(op, off, nsectors % 65536, flag,
                                      random(FramesSent))])
        /\ cbwOk' = ok
        /\ UNCHANGED << recvOk, dev, csw >>

\* send_exec(krnl_addr, parm_addr)
send_exec(krnl_addr, parm_addr) ==
    \E ok \in BOOLEAN :
        /\ Xfer(ok, TRUE)
        /\ log' = Append(log,
              [Ev("exec", RKFT_CMD_EXECUTESDRAM, krnl_addr, parm_addr, CBW_LEN, << >>)
                  EXCEPT !.tag = random(FramesSent),
                         !.frame = exec_frame(krnl_addr, parm_addr,
                                              random(FramesSent))])
        /\ cbwOk' = ok
        /\ UNCHANGED << recvOk, dev, csw >>

\* recv_csw()
LastEv == log[Len(log)]

\* The tag bytes of the command frame of the exchange in progress.
LastTag ==
    LET e == IF LastEv.k \in {"cbw", "exec"} THEN LastEv ELSE log[Len(log) - 1]
    IN  SubSeq(e.frame, 5, 8)

\* The status frames the device may answer with: command passed; command
\* failed, with a residue; a frame with another tag and a phase error.
CswFrames ==
    { STR_USBS \o LastTag \o << 0, 0, 0, 0 >> \o << 0 >>,
      STR_USBS \o LastTag \o << 0, 2, 0, 0 >> \o << 1 >>,
      STR_USBS \o << 255, 255, 255, 255 >> \o << 0, 0, 0, 0 >> \o << 2 >> }

\* recv_csw(): the frame lands in csw; nothing is returned.
recv_csw ==
    \E ok \in BOOLEAN : \E c \in CswFrames :
        /\ Xfer(ok, FALSE)
        /\ log' = Append(log, Ev("csw", "", 0, 0, CSW_LEN, << >>))
        /\ csw' = IF ok THEN c ELSE csw
        /\ UNCHANGED << cbwOk, recvOk, dev >>

\* recv_buf(length): length bytes of the device's answer to the last command
\* frame land at buf; what does not fit lands behind buf.
recv_buf(length) ==
    \E ok \in BOOLEAN :
        /\ Xfer(ok, TRUE)
        /\ log' = Append(log, Ev("recv", "", 0, 0, length, << >>))
        /\ recvOk' = ok
        /\ buf' = IF ok
                  THEN LET d == DevData(LastEv.op, LastEv.off, length)
                       IN  IF length >= RKFT_BLOCKSIZE
                           THEN SubSeq(d, 1, RKFT_BLOCKSIZE)
                           ELSE d \o SubSeq(buf, length + 1, RKFT_BLOCKSIZE)
                  ELSE buf
        /\ ub' = (ub \/ length > RKFT_BLOCKSIZE)
        /\ UNCHANGED << cbwOk, dev, csw >>

\* The device keeps the sector block written to LBA 0.
DevStore(ok, data) ==
    IF /\ ok
       /\ cbwOk
       /\ LastEv.op = RKFT_CMD_WRITELBA
       /\ LastEv.off = 0
    THEN [dev EXCEPT !.param = Pad(data, RKFT_BLOCKSIZE)]
    ELSE dev

\* libusb_bulk_transfer(h, EP1_WRITE, m, length, &tmp, 0)
send_mem(m, length) ==
    \E ok \in BOOLEAN :
        /\ Xfer(ok, TRUE)
        /\ log' = Append(log, Ev("send", "", 0, 0, length, SubSeq(m, 1, length)))
        /\ dev' = DevStore(ok, SubSeq(m, 1, length))
        /\ UNCHANGED << cbwOk, recvOk, csw >>

\* send_buf(length)
send_buf(length) == send_mem(buf, length)

\* libusb_control_transfer(h, LIBUSB_REQUEST_TYPE_VENDOR, 12, 0, index, buf, nr, 0)
control_transfer(index, nr) ==
    \E ok \in BOOLEAN :
        /\ Xfer(ok, TRUE)
        /\ log' = Append(log, Ev("ctl", "", index, 0, nr, SubSeq(buf, 1, nr)))
        /\ UNCHANGED << cbwOk, recvOk, dev, csw >>

(* ------------------------------- stdio --------------------------------- *)

Min(a, b) == IF a < b THEN a ELSE b

\* The results read(STDIN_FILENO, p, n) can have: the bytes at hand, fewer of
\* them, 0 at end of input, -1 on error.
ReadResults(n) ==
    LET m == Min(n, inLen - inPos)
    IN  IF m = 0 THEN {0}
        ELSE {m} \cup (IF nio < MaxIoFault /\ twin.n = 0
                       THEN {-1, 1, m - 1} \ {0, m} ELSE {})

\* The effect of a read that returned r on the stream.
DidRead(n, r) ==
    /\ r \in ReadResults(n)
    /\ inPos' = IF r > 0 THEN inPos + r ELSE inPos
    /\ nio' = IF r = -1 \/ (r > 0 /\ r < Min(n, inLen - inPos)) THEN nio + 1 ELSE nio
    /\ shortAt' = IF action = "w" /\ r > 0 /\ r < n /\ shortAt = -1
                  THEN Cardinality({i \in 1..Len(log) : log[i].op = RKFT_CMD_WRITELBA})
                  ELSE shortAt

\* m with the r bytes read stored at address at.
Stored(m, at, r) ==
    IF r <= 0 THEN m
    ELSE SubSeq(m, 1, at) \o InBytes(inPos, r) \o SubSeq(m, at + r + 1, Len(m))

\* The results write(STDOUT_FILENO, p, n) can have: n, or -1 on error.
WriteResults(n) ==
    {n} \cup (IF nio < MaxIoFault /\ twin.n = 0 THEN {-1} ELSE {})

\* info_and_fatal(1, ...): the message, then exit(1).
Fatal(msg) ==
    /\ reports' = Append(reports, msg)
    /\ pc' = "fatal"
    /\ exitcode' = 1

(* ------------------------------- main() -------------------------------- *)

\* A variant that goes to the action without the readiness probe.
Start_noProbe ==
    /\ pc = "start"
    /\ pc' = IF action \in {"l", "L"} THEN "ld_read"
             ELSE IF partname # << >> THEN "part_cbw" ELSE "action"
    /\ UNCHANGED << argv, usb, stdio, regs, mem, msgs, term >>

\* The first switch (lines 417-446) and the step to the readiness probe.
Start ==
    /\ pc = "start"
    /\ pc' = IF action \in {"l", "L"} THEN "ld_read" ELSE "probe_cbw"
    /\ UNCHANGED << argv, usb, stdio, regs, mem, msgs, term >>

\* send_cbw(RKFT_CMD_TESTUNITREADY, 0, 0, flag)
ProbeCbw ==
    /\ pc = "probe_cbw"
    /\ send_cbw(RKFT_CMD_TESTUNITREADY, 0, 0)
    /\ pc' = "probe_csw"
    /\ UNCHANGED << argv, stdio, regs, mem, msgs, term >>

\* recv_csw(); usleep(20*1000); if (partname) ...
ProbeCsw ==
    /\ pc = "probe_csw"
    /\ recv_csw
    /\ pc' = IF partname # << >> THEN "part_cbw" ELSE "action"
    /\ UNCHANGED << argv, stdio, regs, mem, msgs, term >>

\* The label a case of the second switch starts at.
FlowEntry(a) ==
    CASE a = "b" -> "b_cbw"
      [] a = "r" -> "r_head"
      [] a = "w" -> "w_head"
      [] a = "p" -> "p_cbw"
      [] a = "P" -> "P_read"
      [] a = "m" -> "m_head"
      [] a = "M" -> "M_head"
      [] a = "B" -> "B_exec"
      [] a = "i" -> "i_head"
      [] a = "j" -> "j_head"
      [] a = "e" -> "e_fill"
      [] a = "v" -> "v_cbw"
      [] a = "n" -> "n_cbw1"
      [] OTHER -> "exit"

\* action: switch(action)
Dispatch ==
    /\ pc = "action"
    /\ pc' = FlowEntry(action)
    /\ offset0' = offset
    /\ size0' = size
    /\ UNCHANGED << action, partname, flag, inLen, oobByte, run, written, rseed,
                    twin, usb, stdio, regs, mem, msgs, term >>

\* A variant that returns without releasing the interface.
Exit_noTeardown ==
    /\ pc = "exit"
    /\ exitcode' = 0
    /\ pc' = "done"
    /\ UNCHANGED << argv, usb, stdio, regs, mem, msgs, teardown, resolveLog >>

\* exit: libusb_release_interface; libusb_close; libusb_exit; return 0
Exit ==
    /\ pc = "exit"
    /\ teardown' = teardown + 1
    /\ exitcode' = 0
    /\ pc' = "done"
    /\ UNCHANGED << argv, usb, stdio, regs, mem, msgs, resolveLog >>

Terminal == {"done", "fatal", "crashed"}

\* An access outside buf is undefined: the process may go on, or die.
Crash ==
    /\ ub
    /\ pc \notin Terminal
    /\ pc' = "crashed"
    /\ exitcode' = 139
    /\ UNCHANGED << argv, usb, stdio, regs, mem, msgs, teardown, resolveLog >>

(* case 'b' *)

Reboot_cbw ==
    /\ pc = "b_cbw"
    /\ send_cbw(RKFT_CMD_RESETDEVICE, 0, 0)
    /\ reports' = Append(reports, "rebooting")
    /\ pc' = "b_csw"
    /\ UNCHANGED << argv, stdio, regs, mem, progress, term >>

Reboot_csw ==
    /\ pc = "b_csw"
    /\ recv_csw
    /\ pc' = "exit"
    /\ UNCHANGED << argv, stdio, regs, mem, msgs, term >>

(* case 'r' *)

\* while (size > 0) { infocr(...)
ReadFlash_head ==
    /\ pc = "r_head"
    /\ size > 0 => Len(progress) < MaxWindows
    /\ IF size > 0
       THEN /\ progress' = Append(progress, offset)
            /\ pc' = "r_cbw"
            /\ UNCHANGED reports
       ELSE /\ reports' = Append(reports, "Done")
            /\ pc' = "exit"
            /\ UNCHANGED progress
    /\ UNCHANGED << argv, usb, stdio, regs, mem, term >>

ReadFlash_cbw ==
    /\ pc = "r_cbw"
    /\ send_cbw(RKFT_CMD_READLBA, offset, RKFT_OFF_INCR)
    /\ pc' = "r_buf"
    /\ UNCHANGED << argv, stdio, regs, mem, msgs, term >>

ReadFlash_buf ==
    /\ pc = "r_buf"
    /\ recv_buf(RKFT_BLOCKSIZE)
    /\ pc' = "r_csw"
    /\ UNCHANGED << argv, stdio, regs, ibuf, msgs, term >>

\* A variant that goes on without receiving the status.
ReadFlash_csw_skipped ==
    /\ pc = "r_csw"
    /\ pc' = "r_write"
    /\ UNCHANGED << argv, usb, stdio, regs, mem, msgs, term >>

\* A variant that leaves the loop when the status frame reports a failure.
ReadFlash_csw_checked ==
    /\ pc = "r_csw"
    /\ recv_csw
    /\ pc' = IF csw'[CSW_LEN] = 0 THEN "r_write" ELSE "exit"
    /\ UNCHANGED << argv, stdio, regs, mem, msgs, term >>

ReadFlash_csw ==
    /\ pc = "r_csw"
    /\ recv_csw
    /\ pc' = "r_write"
    /\ UNCHANGED << argv, stdio, regs, mem, msgs, term >>

\* The bytes at buf .. buf + n, those behind buf included.
MemBytes(from, n) ==
    IF from + n <= RKFT_BLOCKSIZE THEN SubSeq(buf, from + 1, from + n)
    ELSE IF from >= RKFT_BLOCKSIZE THEN Rep(oobByte, n)
    ELSE SubSeq(buf, from + 1, RKFT_BLOCKSIZE)
            \o Rep(oobByte, (from + n) - RKFT_BLOCKSIZE)

\* if (write(STDOUT_FILENO, buf + from, n) <= 0) fatal("Write error! ...")
\* and, after it, the assignments regs2 to offset and size and the jump to next.
WriteOut(from, n, next, offset2, size2) ==
    \E w \in WriteResults(n) :
        /\ nio' = IF w = -1 THEN nio + 1 ELSE nio
        /\ IF w <= 0
           THEN /\ Fatal("Write error")
                /\ UNCHANGED << out, staleOut, offset, size >>
           ELSE /\ out' = out \o MemBytes(from, n)
                /\ staleOut' = (staleOut \/ ~recvOk)
                /\ offset' = offset2
                /\ size' = size2
                /\ pc' = next
                /\ UNCHANGED << reports, exitcode >>
        /\ ub' = (ub \/ (w > 0 /\ from + n > RKFT_BLOCKSIZE))
        /\ UNCHANGED << argv, usb, inPos, shortAt, sizeRead, crc16, buf, ibuf, progress,
                        teardown, resolveLog >>

ReadFlash_write ==
    /\ pc = "r_write"
    /\ WriteOut(0, RKFT_BLOCKSIZE, "r_head",
                Add32(offset, RKFT_OFF_INCR), Sub32(size, RKFT_OFF_INCR))

(* case 'w' *)

WriteFlash_head ==
    /\ pc = "w_head"
    /\ size > 0 => Len(progress) < MaxWindows
    /\ IF size > 0
       THEN /\ progress' = Append(progress, offset)
            /\ pc' = "w_read"
            /\ UNCHANGED reports
       ELSE /\ reports' = Append(reports, "Done")
            /\ pc' = "exit"
            /\ UNCHANGED progress
    /\ UNCHANGED << argv, usb, stdio, regs, mem, term >>

\* A variant that takes only a read error, not end of input, as the end.
ReadEnded_errorOnly(r) == r < 0

\* read(...) <= 0
ReadEnded(r) == r <= 0

\* if (read(STDIN_FILENO, buf, RKFT_BLOCKSIZE) <= 0) { ... goto exit; }
WriteFlash_read ==
    /\ pc = "w_read"
    /\ \E r \in ReadResults(RKFT_BLOCKSIZE) :
        /\ DidRead(RKFT_BLOCKSIZE, r)
        /\ IF ReadEnded(r)
           THEN /\ reports' = reports \o << "Done", "premature" >>
                /\ pc' = "exit"
                /\ UNCHANGED buf
           ELSE /\ buf' = Stored(buf, 0, r)
                /\ pc' = "w_cbw"
                /\ UNCHANGED reports
    /\ UNCHANGED << argv, usb, out, staleOut, regs, ibuf, ub, progress, term >>

WriteFlash_cbw ==
    /\ pc = "w_cbw"
    /\ send_cbw(RKFT_CMD_WRITELBA, offset, RKFT_OFF_INCR)
    /\ pc' = "w_buf"
    /\ UNCHANGED << argv, stdio, regs, mem, msgs, term >>

WriteFlash_buf ==
    /\ pc = "w_buf"
    /\ send_buf(RKFT_BLOCKSIZE)
    /\ pc' = "w_csw"
    /\ UNCHANGED << argv, stdio, regs, mem, msgs, term >>

WriteFlash_csw ==
    /\ pc = "w_csw"
    /\ recv_csw
    /\ offset' = Add32(offset, RKFT_OFF_INCR)
    /\ size' = Sub32(size, RKFT_OFF_INCR)
    /\ pc' = "w_head"
    /\ UNCHANGED << argv, stdio, sizeRead, crc16, mem, msgs, term >>

(* case 'e' *)

\* A variant that enters the loop without filling buf.
Erase_fill_skipped ==
    /\ pc = "e_fill"
    /\ pc' = "e_head"
    /\ UNCHANGED << argv, usb, stdio, regs, mem, msgs, term >>

\* memset(buf, 0xff, RKFT_BLOCKSIZE)
Erase_fill ==
    /\ pc = "e_fill"
    /\ buf' = Rep(ERASE_BYTE, RKFT_BLOCKSIZE)
    /\ pc' = "e_head"
    /\ UNCHANGED << argv, usb, stdio, regs, ibuf, ub, msgs, term >>

Erase_head ==
    /\ pc = "e_head"
    /\ size > 0 => Len(progress) < MaxWindows
    /\ IF size > 0
       THEN /\ progress' = Append(progress, offset)
            /\ pc' = "e_cbw"
            /\ UNCHANGED reports
       ELSE /\ reports' = Append(reports, "Done")
            /\ pc' = "exit"
            /\ UNCHANGED progress
    /\ UNCHANGED << argv, usb, stdio, regs, mem, term >>

Erase_cbw ==
    /\ pc = "e_cbw"
    /\ send_cbw(RKFT_CMD_WRITELBA, offset, RKFT_OFF_INCR)
    /\ pc' = "e_buf"
    /\ UNCHANGED << argv, stdio, regs, mem, msgs, term >>

Erase_buf ==
    /\ pc = "e_buf"
    /\ send_buf(RKFT_BLOCKSIZE)
    /\ pc' = "e_csw"
    /\ UNCHANGED << argv, stdio, regs, mem, msgs, term >>

Erase_csw ==
    /\ pc = "e_csw"
    /\ recv_csw
    /\ offset' = Add32(offset, RKFT_OFF_INCR)
    /\ size' = Sub32(size, RKFT_OFF_INCR)
    /\ pc' = "e_head"
    /\ UNCHANGED << argv, stdio, sizeRead, crc16, mem, msgs, term >>

(* case 'p' *)

ParamRead_cbw ==
    /\ pc = "p_cbw"
    /\ send_cbw(RKFT_CMD_READLBA, offset, RKFT_OFF_INCR)
    /\ pc' = "p_buf"
    /\ UNCHANGED << argv, stdio, regs, mem, msgs, term >>

ParamRead_buf ==
    /\ pc = "p_buf"
    /\ recv_buf(RKFT_BLOCKSIZE)
    /\ pc' = "p_csw"
    /\ UNCHANGED << argv, stdio, regs, ibuf, msgs, term >>

ParamRead_csw ==
    /\ pc = "p_csw"
    /\ recv_csw
    /\ pc' = "p_len"
    /\ UNCHANGED << argv, stdio, regs, mem, msgs, term >>

\* size < 0 || size > MAX_PARAM_LENGTH
BadLength(n) == n < 0 \/ n > MAX_PARAM_LENGTH

\* size = *p; if (size < 0 || size > MAX_PARAM_LENGTH) fatal("Bad parameter length!")
ParamRead_len ==
    /\ pc = "p_len"
    /\ size' = LE32Int(SubSeq(buf, 5, 8))
    /\ IF BadLength(size')
       THEN Fatal("Bad parameter length")
       ELSE /\ pc' = "p_crc"
            /\ UNCHANGED << reports, exitcode >>
    /\ UNCHANGED << argv, usb, stdio, offset, sizeRead, crc16, mem, progress,
                    teardown, resolveLog >>

\* A variant that compares the most significant byte only.
CrcMismatch_topByte(crc_buf, crc) == crc_buf[1] # crc[1]

\* crc_buf != crc
CrcMismatch(crc_buf, crc) == crc_buf # crc

\* crc_buf = *(uint32_t *)(buf + 8 + size); crc = rkcrc32(0, buf + 8, size);
\* if (crc_buf != crc) fatal("bad CRC! ...").  Both reads leave buf when
\* 8 + size + 4 > RKFT_BLOCKSIZE.
ParamRead_crc ==
    /\ pc = "p_crc"
    /\ LET crc_buf == GET32LE(MemBytes(8 + size, 4))
           crc == rkcrc32(CRC_ZERO, MemBytes(8, size))
           outside == 8 + size + 4 > RKFT_BLOCKSIZE
       IN  /\ ub' = (ub \/ outside)
           /\ \/ /\ outside
                 /\ pc' = "crashed"
                 /\ exitcode' = 139
                 /\ UNCHANGED reports
              \/ IF CrcMismatch(crc_buf, crc)
                 THEN Fatal("bad CRC")
                 ELSE /\ pc' = "p_write"
                      /\ UNCHANGED << reports, exitcode >>
    /\ UNCHANGED << argv, usb, stdio, regs, buf, ibuf, progress, teardown,
                    resolveLog >>

\* if (write(STDOUT_FILENO, &buf[8], size) <= 0) fatal("Write error! ...")
ParamRead_write ==
    /\ pc = "p_write"
    /\ WriteOut(8, size, "exit", offset, size)

(* case 'P' *)

\* strncpy(buf, "PARM", 4); sizeRead = read(STDIN_FILENO, buf + 8,
\* RKFT_BLOCKSIZE - 8); length at buf + 4; PUT32LE(buf + 8 + sizeRead, crc);
\* offset = 0
ParamWrite_read ==
    /\ pc = "P_read"
    /\ \E r \in ReadResults(RKFT_BLOCKSIZE - 8) :
        /\ DidRead(RKFT_BLOCKSIZE - 8, r)
        /\ LET b1 == Poke(buf, 0, STR_PARM)
               b2 == Stored(b1, 8, r)
               b3 == Poke(b2, 4, LE32Bytes(r))
               crc == rkcrc32(CRC_ZERO, SubSeq(b3, 9, 8 + r))
           IN  IF r < 0
               THEN /\ buf' = b1
                    /\ reports' = Append(reports, "read error")
                    /\ pc' = "exit"
                    /\ UNCHANGED << sizeRead, offset, ub, written >>
               ELSE /\ buf' = Poke(b3, 8 + r, PUT32LE(crc))
                    /\ ub' = (ub \/ 8 + r + 4 > RKFT_BLOCKSIZE)
                    /\ sizeRead' = r
                    /\ offset' = 0
                    /\ written' = IF run = 1 THEN SubSeq(b3, 9, 8 + r) ELSE written
                    /\ pc' = "P_cbw"
                    /\ UNCHANGED reports
    /\ UNCHANGED << action, partname, flag, inLen, oobByte, run, offset0, size0, rseed,
                    twin,
                    usb, out, staleOut, size, crc16, ibuf, progress, term >>

ParamWrite_cbw ==
    /\ pc = "P_cbw"
    /\ progress' = Append(progress, offset)
    /\ send_cbw(RKFT_CMD_WRITELBA, offset, RKFT_OFF_INCR)
    /\ pc' = "P_buf"
    /\ UNCHANGED << argv, stdio, regs, mem, reports, term >>

ParamWrite_buf ==
    /\ pc = "P_buf"
    /\ send_buf(RKFT_BLOCKSIZE)
    /\ pc' = "P_csw"
    /\ UNCHANGED << argv, stdio, regs, mem, msgs, term >>

\* recv_csw(); offset += 0x400; offset < 0x2000
ParamWrite_csw ==
    /\ pc = "P_csw"
    /\ recv_csw
    /\ offset' = offset + PARAM_STEP
    /\ IF offset' < PARAM_END
       THEN /\ pc' = "P_cbw"
            /\ UNCHANGED reports
       ELSE /\ reports' = Append(reports, "Done")
            /\ pc' = "exit"
    /\ UNCHANGED << argv, stdio, size, sizeRead, crc16, mem, progress, term >>

(* case 'm' *)

\* size > max ? max : size
Window(n, max) == IF n > max THEN max ELSE n

ReadRam_head ==
    /\ pc = "m_head"
    /\ size > 0 => Len(progress) < MaxWindows
    /\ IF size > 0
       THEN /\ sizeRead' = Window(size, RKFT_BLOCKSIZE)
            /\ progress' = Append(progress, offset)
            /\ pc' = "m_cbw"
            /\ UNCHANGED reports
       ELSE /\ reports' = Append(reports, "Done")
            /\ pc' = "exit"
            /\ UNCHANGED << progress, sizeRead >>
    /\ UNCHANGED << argv, usb, stdio, offset, size, crc16, mem, term >>

ReadRam_cbw ==
    /\ pc = "m_cbw"
    /\ send_cbw(RKFT_CMD_READSDRAM, Sub32(offset, SDRAM_BASE_ADDRESS), sizeRead)
    /\ pc' = "m_buf"
    /\ UNCHANGED << argv, stdio, regs, mem, msgs, term >>

ReadRam_buf ==
    /\ pc = "m_buf"
    /\ recv_buf(sizeRead)
    /\ pc' = "m_csw"
    /\ UNCHANGED << argv, stdio, regs, ibuf, msgs, term >>

ReadRam_csw ==
    /\ pc = "m_csw"
    /\ recv_csw
    /\ pc' = "m_write"
    /\ UNCHANGED << argv, stdio, regs, mem, msgs, term >>

ReadRam_write ==
    /\ pc = "m_write"
    /\ WriteOut(0, sizeRead, "m_head", Add32(offset, sizeRead), Sub32(size, sizeRead))

(* case 'M' *)

WriteRam_head ==
    /\ pc = "M_head"
    /\ size > 0 => Len(progress) < MaxWindows
    /\ IF size > 0
       THEN /\ pc' = "M_read"
            /\ UNCHANGED reports
       ELSE /\ reports' = Append(reports, "Done")
            /\ pc' = "exit"
    /\ UNCHANGED << argv, usb, stdio, regs, mem, progress, term >>

\* if ((sizeRead = read(STDIN_FILENO, buf, RKFT_BLOCKSIZE)) <= 0) { ... goto exit; }
WriteRam_read ==
    /\ pc = "M_read"
    /\ \E r \in ReadResults(RKFT_BLOCKSIZE) :
        /\ DidRead(RKFT_BLOCKSIZE, r)
        /\ sizeRead' = r
        /\ IF ReadEnded(r)
           THEN /\ reports' = Append(reports, "premature")
                /\ pc' = "exit"
                /\ UNCHANGED << buf, progress >>
           ELSE /\ buf' = Stored(buf, 0, r)
                /\ progress' = Append(progress, offset)
                /\ pc' = "M_cbw"
                /\ UNCHANGED reports
    /\ UNCHANGED << argv, usb, out, staleOut, offset, size, crc16, ibuf, ub, term >>

WriteRam_cbw ==
    /\ pc = "M_cbw"
    /\ send_cbw(RKFT_CMD_WRITESDRAM, Sub32(offset, SDRAM_BASE_ADDRESS), sizeRead)
    /\ pc' = "M_buf"
    /\ UNCHANGED << argv, stdio, regs, mem, msgs, term >>

WriteRam_buf ==
    /\ pc = "M_buf"
    /\ send_buf(sizeRead)
    /\ pc' = "M_csw"
    /\ UNCHANGED << argv, stdio, regs, mem, msgs, term >>

WriteRam_csw ==
    /\ pc = "M_csw"
    /\ recv_csw
    /\ offset' = Add32(offset, sizeRead)
    /\ size' = Sub32(size, sizeRead)
    /\ pc' = "M_head"
    /\ UNCHANGED << argv, stdio, sizeRead, crc16, mem, msgs, term >>

(* case 'B' *)

ExecRam_exec ==
    /\ pc = "B_exec"
    /\ reports' = Append(reports, "booting")
    /\ send_exec(Sub32(offset, SDRAM_BASE_ADDRESS), Sub32(size, SDRAM_BASE_ADDRESS))
    /\ pc' = "B_csw"
    /\ UNCHANGED << argv, stdio, regs, mem, progress, term >>

ExecRam_csw ==
    /\ pc = "B_csw"
    /\ recv_csw
    /\ pc' = "exit"
    /\ UNCHANGED << argv, stdio, regs, mem, msgs, term >>

(* case 'i' *)

ReadIdb_head ==
    /\ pc = "i_head"
    /\ size > 0 => Len(progress) < MaxWindows
    /\ IF size > 0
       THEN /\ sizeRead' = Window(size, RKFT_IDB_INCR)
            /\ progress' = Append(progress, offset)
            /\ pc' = "i_cbw"
            /\ UNCHANGED reports
       ELSE /\ reports' = Append(reports, "Done")
            /\ pc' = "exit"
            /\ UNCHANGED << progress, sizeRead >>
    /\ UNCHANGED << argv, usb, stdio, offset, size, crc16, mem, term >>

ReadIdb_cbw ==
    /\ pc = "i_cbw"
    /\ send_cbw(RKFT_CMD_READSECTOR, offset, sizeRead)
    /\ pc' = "i_buf"
    /\ UNCHANGED << argv, stdio, regs, mem, msgs, term >>

ReadIdb_buf ==
    /\ pc = "i_buf"
    /\ recv_buf(RKFT_IDB_BLOCKSIZE * sizeRead)
    /\ pc' = "i_csw"
    /\ UNCHANGED << argv, stdio, regs, ibuf, msgs, term >>

ReadIdb_csw ==
    /\ pc = "i_csw"
    /\ recv_csw
    /\ pc' = "i_write"
    /\ UNCHANGED << argv, stdio, regs, mem, msgs, term >>

ReadIdb_write ==
    /\ pc = "i_write"
    /\ WriteOut(0, RKFT_IDB_BLOCKSIZE * sizeRead, "i_head",
                Add32(offset, sizeRead), Sub32(size, sizeRead))

(* case 'j' *)

WriteIdb_head ==
    /\ pc = "j_head"
    /\ size > 0 => Len(progress) < MaxWindows
    /\ IF size > 0
       THEN /\ progress' = Append(progress, offset)
            /\ pc' = "j_read"
            /\ UNCHANGED reports
       ELSE /\ reports' = Append(reports, "Done")
            /\ pc' = "exit"
            /\ UNCHANGED progress
    /\ UNCHANGED << argv, usb, stdio, regs, mem, term >>

\* memset(ibuf, RKFT_IDB_BLOCKSIZE, 0xff);
\* if (read(STDIN_FILENO, ibuf, RKFT_IDB_DATASIZE) <= 0) { ... goto exit; }
WriteIdb_read ==
    /\ pc = "j_read"
    /\ \E r \in ReadResults(RKFT_IDB_DATASIZE) :
        /\ DidRead(RKFT_IDB_DATASIZE, r)
        /\ LET filled == Poke(ibuf, 0, Rep(IDB_FILL_VALUE, IDB_FILL_COUNT))
           IN  IF ReadEnded(r)
               THEN /\ ibuf' = filled
                    /\ reports' = reports \o << "Done", "premature" >>
                    /\ pc' = "exit"
               ELSE /\ ibuf' = Stored(filled, 0, r)
                    /\ pc' = "j_cbw"
                    /\ UNCHANGED reports
    /\ UNCHANGED << argv, usb, out, staleOut, regs, buf, ub, progress, term >>

WriteIdb_cbw ==
    /\ pc = "j_cbw"
    /\ send_cbw(RKFT_CMD_WRITESECTOR, offset, 1)
    /\ pc' = "j_buf"
    /\ UNCHANGED << argv, stdio, regs, mem, msgs, term >>

WriteIdb_buf ==
    /\ pc = "j_buf"
    /\ send_mem(ibuf, RKFT_IDB_BLOCKSIZE)
    /\ pc' = "j_csw"
    /\ UNCHANGED << argv, stdio, regs, mem, msgs, term >>

WriteIdb_csw ==
    /\ pc = "j_csw"
    /\ recv_csw
    /\ offset' = Add32(offset, 1)
    /\ size' = Sub32(size, 1)
    /\ pc' = "j_head"
    /\ UNCHANGED << argv, stdio, sizeRead, crc16, mem, msgs, term >>

(* case 'v' *)

ChipVersion_cbw ==
    /\ pc = "v_cbw"
    /\ send_cbw(RKFT_CMD_READCHIPINFO, 0, 0)
    /\ pc' = "v_buf"
    /\ UNCHANGED << argv, stdio, regs, mem, msgs, term >>

ChipVersion_buf ==
    /\ pc = "v_buf"
    /\ recv_buf(CHIP_INFO_LEN)
    /\ pc' = "v_csw"
    /\ UNCHANGED << argv, stdio, regs, ibuf, msgs, term >>

ChipVersion_csw ==
    /\ pc = "v_csw"
    /\ recv_csw
    /\ reports' = Append(reports, "chip version")
    /\ pc' = "exit"
    /\ UNCHANGED << argv, stdio, regs, mem, progress, term >>

(* case 'n' *)

NandInfo_cbw1 ==
    /\ pc = "n_cbw1"
    /\ send_cbw(RKFT_CMD_READFLASHID, 0, 0)
    /\ pc' = "n_buf1"
    /\ UNCHANGED << argv, stdio, regs, mem, msgs, term >>

NandInfo_buf1 ==
    /\ pc = "n_buf1"
    /\ recv_buf(FLASH_ID_LEN)
    /\ pc' = "n_csw1"
    /\ UNCHANGED << argv, stdio, regs, ibuf, msgs, term >>

NandInfo_csw1 ==
    /\ pc = "n_csw1"
    /\ recv_csw
    /\ reports' = Append(reports, "Flash ID")
    /\ pc' = "n_cbw2"
    /\ UNCHANGED << argv, stdio, regs, mem, progress, term >>

NandInfo_cbw2 ==
    /\ pc = "n_cbw2"
    /\ send_cbw(RKFT_CMD_READFLASHINFO, 0, 0)
    /\ pc' = "n_buf2"
    /\ UNCHANGED << argv, stdio, regs, mem, msgs, term >>

NandInfo_buf2 ==
    /\ pc = "n_buf2"
    /\ recv_buf(NAND_INFO_LEN)
    /\ pc' = "n_csw2"
    /\ UNCHANGED << argv, stdio, regs, ibuf, msgs, term >>

NandInfo_csw2 ==
    /\ pc = "n_csw2"
    /\ recv_csw
    /\ reports' = Append(reports, "Flash Info")
    /\ pc' = "exit"
    /\ UNCHANGED << argv, stdio, regs, mem, progress, term >>

(* cases 'l' and 'L' of the first switch *)

LoaderIndex == IF action = "l" THEN 1137 ELSE 1138

\* while ((nr = read(STDIN_FILENO, buf, 4096)) == 4096) { crc16 = ...
\* and, after the loop, if (nr != -1) { crc16 = ...; buf[nr++] = crc16 >> 8;
\* buf[nr++] = crc16 & 0xff;
Loader_read ==
    /\ pc = "ld_read"
    /\ \E r \in ReadResults(LOADER_CHUNK) :
        /\ DidRead(LOADER_CHUNK, r)
        /\ LET b1 == Stored(buf, 0, r)
               c == IF r >= 0 THEN rkcrc16(crc16, SubSeq(b1, 1, r)) ELSE crc16
           IN  IF r = LOADER_CHUNK
               THEN /\ buf' = b1
                    /\ crc16' = c
                    /\ sizeRead' = r
                    /\ pc' = "ld_ctl"
               ELSE IF r # -1
               THEN /\ buf' = Poke(b1, r, c)
                    /\ crc16' = c
                    /\ sizeRead' = r + 2
                    /\ pc' = "ld_last"
               ELSE /\ sizeRead' = r
                    /\ pc' = "exit"
                    /\ UNCHANGED << buf, crc16 >>
    /\ UNCHANGED << argv, usb, out, staleOut, offset, size, ibuf, ub, msgs, term >>

Loader_ctl ==
    /\ pc = "ld_ctl"
    /\ control_transfer(LoaderIndex, sizeRead)
    /\ pc' = "ld_read"
    /\ UNCHANGED << argv, stdio, regs, mem, msgs, term >>

Loader_last ==
    /\ pc = "ld_last"
    /\ control_transfer(LoaderIndex, sizeRead)
    /\ pc' = "exit"
    /\ UNCHANGED << argv, stdio, regs, mem, msgs, term >>

(* if (partname) { ... } *)

\* offset = 0; send_cbw(RKFT_CMD_READLBA, offset, RKFT_OFF_INCR, flag)
Part_cbw ==
    /\ pc = "part_cbw"
    /\ offset' = 0
    /\ send_cbw(RKFT_CMD_READLBA, 0, RKFT_OFF_INCR)
    /\ pc' = "part_buf"
    /\ UNCHANGED << argv, stdio, size, sizeRead, crc16, mem, msgs, term >>

Part_buf ==
    /\ pc = "part_buf"
    /\ recv_buf(RKFT_BLOCKSIZE)
    /\ pc' = "part_csw"
    /\ UNCHANGED << argv, stdio, regs, ibuf, msgs, term >>

Part_csw ==
    /\ pc = "part_csw"
    /\ recv_csw
    /\ pc' = "part_resolve"
    /\ UNCHANGED << argv, stdio, regs, mem, msgs, term >>

Res(r, m, o, s) == [res |-> r, buf |-> m, offset |-> o, size |-> s]

\* Lines 472-545 on the block m for the partition name: what was found, the
\* block after the two cuts, offset and size.
Resolve(m, name) ==
    LET len   == LE32Int(SubSeq(m, 5, 8))
        end0  == StrEnd(m, 8)
        mtd   == strstr(m, 8, end0, STR_MTDPARTS)
        par   == IF mtd = -1 THEN -1
                 ELSE strstr(m, mtd, end0, << 40 >> \o name \o << 41 >>)
        m1    == IF par = -1 THEN m ELSE Poke(m, par, << 0 >>)
        arob  == IF par = -1 THEN -1 ELSE strrchr(m1, mtd, par, 64)
        off   == IF arob = -1 THEN 0 ELSE strtoul(m1, arob + 1, par)
        m2    == IF arob = -1 THEN m1 ELSE Poke(m1, arob, << 0 >>)
        minus == IF arob = -1 THEN -1 ELSE strrchr(m2, mtd, arob, 45)
        comma == IF arob = -1 THEN -1 ELSE strrchr(m2, mtd, arob, 44)
        colon == IF arob = -1 THEN -1 ELSE strrchr(m2, mtd, arob, 58)
    IN  IF BadLength(len) THEN Res("badlength", m, 0, len)
        ELSE IF mtd = -1 THEN Res("notable", m, 0, len)
        ELSE IF par = -1 THEN Res("nopart", m, 0, len)
        ELSE IF arob = -1 THEN Res("noat", m1, 0, len)
        ELSE IF minus # -1 THEN Res("toend", m2, off, len)
        ELSE IF comma # -1 THEN Res("size", m2, off, strtoul(m2, comma + 1, arob))
        ELSE IF colon # -1 THEN Res("size", m2, off, strtoul(m2, colon + 1, arob))
        ELSE Res("nosize", m2, off, len)

ResolveErrors == {"notable", "nopart", "noat", "nosize"}

\* A variant whose last error falls through to the action label.
ResolveNext_fallthrough(res) ==
    IF res \in (ResolveErrors \ {"nosize"}) THEN "exit"
    ELSE IF res = "toend" THEN "nand_cbw"
    ELSE "action"

\* Where each outcome of the resolution goes: goto exit, the NAND query, or
\* goto action.
ResolveNext(res) ==
    IF res \in ResolveErrors THEN "exit"
    ELSE IF res = "toend" THEN "nand_cbw"
    ELSE "action"

Part_resolve ==
    /\ pc = "part_resolve"
    /\ LET r == Resolve(buf, partname)
       IN  /\ buf' = r.buf
           /\ offset' = r.offset
           /\ size' = r.size
           /\ ub' = (ub \/ StrEnd(buf, 8) = RKFT_BLOCKSIZE)
           /\ IF r.res = "badlength"
              THEN /\ Fatal("Bad data length")
                   /\ UNCHANGED resolveLog
              ELSE /\ pc' = ResolveNext(r.res)
                   /\ reports' = IF r.res \in ResolveErrors
                                 THEN Append(reports, r.res) ELSE reports
                   /\ resolveLog' = IF r.res \in ResolveErrors
                                    THEN Len(log) ELSE resolveLog
                   /\ UNCHANGED exitcode
    /\ UNCHANGED << argv, usb, stdio, sizeRead, crc16, ibuf, progress, teardown >>

Nand_cbw ==
    /\ pc = "nand_cbw"
    /\ send_cbw(RKFT_CMD_READFLASHINFO, 0, 0)
    /\ pc' = "nand_buf"
    /\ UNCHANGED << argv, stdio, regs, mem, msgs, term >>

Nand_buf ==
    /\ pc = "nand_buf"
    /\ recv_buf(NAND_INFO_LEN)
    /\ pc' = "nand_csw"
    /\ UNCHANGED << argv, stdio, regs, ibuf, msgs, term >>

\* recv_csw(); size = nand->flash_size - offset; goto action
Nand_csw ==
    /\ pc = "nand_csw"
    /\ recv_csw
    /\ size' = Sub32(LE32Int(SubSeq(buf, 1, 4)), offset)
    /\ pc' = "action"
    /\ UNCHANGED << argv, stdio, offset, sizeRead, crc16, mem, msgs, term >>

(* a second invocation: rkflashtool p, after rkflashtool P returned *)

Reinvoke ==
    /\ pc = "done"
    /\ run = 1
    /\ twin.n = 0
    /\ action = "P"
    /\ action' = "p"
    /\ offset' = 0
    /\ size' = 1024
    /\ inLen' = 0
    /\ pc' = "start"
    /\ sizeRead' = 0
    /\ crc16' = << 255, 255 >>
    /\ buf' = Rep(0, RKFT_BLOCKSIZE)
    /\ ibuf' = Rep(0, RKFT_IDB_BLOCKSIZE)
    /\ inPos' = 0
    /\ shortAt' = -1
    /\ out' = << >>
    /\ reports' = << >>
    /\ progress' = << >>
    /\ log' = << >>
    /\ cbwOk' = TRUE
    /\ recvOk' = TRUE
    /\ staleOut' = FALSE
    /\ ub' = FALSE
    /\ teardown' = 0
    /\ exitcode' = -1
    /\ oobByte' \in OobBytes
    /\ run' = 2
    /\ offset0' = 0
    /\ size0' = 0
    /\ csw' = Rep(0, CSW_LEN)
    /\ UNCHANGED << partname, flag, resolveLog, dev, written, nfail, afterFail,
                    nio, rseed, twin >>

\* What a run shows: the transport calls with their frames and data, the
\* output, the messages, and how it ended.
Obs ==
    [log |-> log, out |-> out, reports |-> reports, progress |-> progress,
     pc |-> pc, exitcode |-> exitcode, teardown |-> teardown]

\* The same command line is run once more on the same input and the same
\* device, after a first run in which every call succeeded; the calls of the
\* second run succeed as well, only the status frames are the device's
\* choice again.
Twin ==
    /\ pc \in {"done", "fatal"}
    /\ run = 1
    /\ twin.n = 0
    /\ nfail = 0
    /\ nio = 0
    /\ ~ub
    /\ twin' = [twin EXCEPT !.n = 1, !.obs = Obs, !.csw = csw]
    /\ dev' = twin.dev
    /\ offset' = twin.offset
    /\ size' = twin.size
    /\ pc' = "start"
    /\ sizeRead' = 0
    /\ crc16' = << 255, 255 >>
    /\ buf' = Rep(0, RKFT_BLOCKSIZE)
    /\ ibuf' = Rep(0, RKFT_IDB_BLOCKSIZE)
    /\ inPos' = 0
    /\ shortAt' = -1
    /\ csw' = Rep(0, CSW_LEN)
    /\ out' = << >>
    /\ reports' = << >>
    /\ progress' = << >>
    /\ log' = << >>
    /\ cbwOk' = TRUE
    /\ recvOk' = TRUE
    /\ staleOut' = FALSE
    /\ teardown' = 0
    /\ exitcode' = -1
    /\ resolveLog' = -1
    /\ offset0' = 0
    /\ size0' = 0
    /\ written' = << >>
    /\ UNCHANGED << action, partname, flag, inLen, oobByte, run, rseed, nfail,
                    afterFail, nio, ub >>

Next ==
    \/ Start \/ ProbeCbw \/ ProbeCsw \/ Dispatch \/ Exit \/ Crash
    \/ Reboot_cbw \/ Reboot_csw
    \/ ReadFlash_head \/ ReadFlash_cbw \/ ReadFlash_buf \/ ReadFlash_csw
    \/ ReadFlash_write
    \/ WriteFlash_head \/ WriteFlash_read \/ WriteFlash_cbw \/ WriteFlash_buf
    \/ WriteFlash_csw
    \/ Erase_fill \/ Erase_head \/ Erase_cbw \/ Erase_buf \/ Erase_csw
    \/ ParamRead_cbw \/ ParamRead_buf \/ ParamRead_csw \/ ParamRead_len
    \/ ParamRead_crc \/ ParamRead_write
    \/ ParamWrite_read \/ ParamWrite_cbw \/ ParamWrite_buf \/ ParamWrite_csw
    \/ ReadRam_head \/ ReadRam_cbw \/ ReadRam_buf \/ ReadRam_csw \/ ReadRam_write
    \/ WriteRam_head \/ WriteRam_read \/ WriteRam_cbw \/ WriteRam_buf
    \/ WriteRam_csw
    \/ ExecRam_exec \/ ExecRam_csw
    \/ ReadIdb_head \/ ReadIdb_cbw \/ ReadIdb_buf \/ ReadIdb_csw \/ ReadIdb_write
    \/ WriteIdb_head \/ WriteIdb_read \/ WriteIdb_cbw \/ WriteIdb_buf
    \/ WriteIdb_csw
    \/ ChipVersion_cbw \/ ChipVersion_buf \/ ChipVersion_csw
    \/ NandInfo_cbw1 \/ NandInfo_buf1 \/ NandInfo_csw1
    \/ NandInfo_cbw2 \/ NandInfo_buf2 \/ NandInfo_csw2
    \/ Loader_read \/ Loader_ctl \/ Loader_last
    \/ Part_cbw \/ Part_buf \/ Part_csw \/ Part_resolve
    \/ Nand_cbw \/ Nand_buf \/ Nand_csw
    \/ Reinvoke \/ Twin

Spec == Init /\ [][Next]_vars

(* ------------------------------ properties ---------------------------- *)

Last(s) == s[Len(s)]

Reported(msg) == \E i \in 1..Len(reports) : reports[i] = msg

IsWriteCbw(e) ==
    /\ e.k = "cbw"
    /\ e.op \in {RKFT_CMD_WRITELBA, RKFT_CMD_WRITESDRAM, RKFT_CMD_WRITESECTOR}

WriteFrames == Cardinality({i \in 1..Len(log) : IsWriteCbw(log[i])})

\* Every write command frame is followed by its data phase and its status.
WritesCompleted ==
    \A i \in 1..Len(log) :
        IsWriteCbw(log[i]) =>
            /\ i + 2 <= Len(log)
            /\ log[i + 1].k = "send"
            /\ log[i + 2].k = "csw"

Ceil(a, b) == (a + (b - 1)) \div b

\* C1: once partition resolution has failed (no table clause, no bracketed
\* name, no '@', no size form) no further transport call is issued, the
\* error is the last thing reported, and the run ends through the exit label
\* with the teardown done and exit code 0.
C1_ResolveFailureAborts ==
    resolveLog # -1 =>
        /\ Len(log) = resolveLog
        /\ Len(reports) > 0
        /\ Last(reports) \in ResolveErrors
        /\ pc \in {"exit", "done"}
        /\ pc = "done" => (teardown = 1 /\ exitcode = 0)

C1_Witness ==
    /\ pc = "done"
    /\ action = "w"
    /\ resolveLog # -1
    /\ reports = << "nosize" >>

\* Bytes of input one write window takes, and the windows asked for.
WriteWindowBytes ==
    IF action = "j" THEN RKFT_IDB_DATASIZE ELSE RKFT_BLOCKSIZE

WindowsAsked ==
    IF action = "w" THEN Ceil(size0, RKFT_OFF_INCR)
    ELSE IF action = "M" THEN Ceil(size0, RKFT_BLOCKSIZE)
    ELSE size0

\* C2: a write flow ('w', 'M', 'j') asked for n windows whose input holds
\* exactly k < n full windows, every read returning a full window, ends at
\* the exit label with exit code 0 and one teardown, after exactly k write
\* command frames, each with its data phase and status, and after reporting
\* the premature end of input.
C2_WriteExhaustion ==
    ( /\ action \in {"w", "M", "j"}
      /\ pc \in Terminal
      /\ size0 > 0
      /\ nio = 0
      /\ inLen % WriteWindowBytes = 0
      /\ (inLen \div WriteWindowBytes) < WindowsAsked )
    =>  /\ pc = "done"
        /\ exitcode = 0
        /\ teardown = 1
        /\ WriteFrames = inLen \div WriteWindowBytes
        /\ WritesCompleted
        /\ Last(reports) = "premature"

C2_Witness ==
    /\ action = "w"
    /\ pc = "done"
    /\ size0 = 128
    /\ inLen = 3 * RKFT_BLOCKSIZE
    /\ nio = 0
    /\ WriteFrames = 3
    /\ Last(reports) = "premature"

ReadMax ==
    IF action = "r" THEN RKFT_OFF_INCR
    ELSE IF action = "m" THEN RKFT_BLOCKSIZE
    ELSE RKFT_IDB_INCR

ReadUnitBytes ==
    IF action = "r" THEN SectorBytes
    ELSE IF action = "m" THEN 1
    ELSE RKFT_IDB_BLOCKSIZE

\* C3: with no transport fault, in the read loops of 'r', 'm' and 'i' the
\* window of each command frame is min(remaining count, maximal window), and a run that completes
\* has forwarded exactly the requested units and advanced the offset by the
\* requested count.
C3_Windowing ==
    /\ (nfail = 0 /\ pc \in {"r_buf", "m_buf", "i_buf"}) =>
          LastEv.len = Window(size, ReadMax)
    /\ ( /\ action \in {"r", "m", "i"}
         /\ nfail = 0
         /\ pc = "done"
         /\ size0 > 0
         /\ Reported("Done") )
       => /\ offset = Add32(offset0, size0)
          /\ Len(out) = size0 * ReadUnitBytes

\* C4: after a parameter write, with no transport or stdio fault in either
\* run, the following parameter read ends at the exit label and has written
\* to its output exactly the payload the write flow read.
C4_RoundTrip ==
    ( /\ run = 2
      /\ pc \in Terminal
      /\ nfail = 0
      /\ nio = 0 )
    =>  /\ pc = "done"
        /\ out = written

\* C5: with no transport fault, the parameter read flow lets a length pass
\* its check only if the payload and the CRC trailer fit the block that was received, i.e. the
\* length is at most RKFT_BLOCKSIZE - 12.
C5_LengthBoundary ==
    (action = "p" /\ nfail = 0 /\ pc = "p_crc") => size + 12 <= RKFT_BLOCKSIZE

\* C6: the parameter read flow gets past its CRC check only when the trailer
\* behind the payload equals the CRC over `size` payload bytes, writes
\* nothing but that payload, and a reported CRC error ends the run with
\* exit code 1 and no output.
C6_CrcGuardsOutput ==
    action = "p" =>
        /\ (pc \in {"p_write", "exit", "done"} \/ out # << >>) =>
              GET32LE(MemBytes(8 + size, 4)) = rkcrc32(CRC_ZERO, MemBytes(8, size))
        /\ out # << >> => out = MemBytes(8, size)
        /\ Reported("bad CRC") =>
              (pc = "fatal" /\ exitcode = 1 /\ out = << >>)

C6_Witness ==
    /\ action = "p"
    /\ dev.param = BlobBadCrc
    /\ pc = "fatal"
    /\ Last(reports) = "bad CRC"
    /\ out = << >>

BeforeResolve ==
    {"start", "probe_cbw", "probe_csw", "part_cbw", "part_buf", "part_csw",
     "part_resolve"}

\* The run resolved a name on the block b as the device sent it.
ResolvedOn(b) ==
    /\ partname # << >>
    /\ dev.param = b
    /\ nfail = 0
    /\ pc \notin BeforeResolve

C8_TeardownOnEveryPath ==
    pc \in {"done", "fatal"} => teardown = 1

\* C8 amended: a run that ends through the exit label (Done, or Aborted after
\* a reported error or a premature end of input) has done the teardown
\* exactly once; a run that ends in fatal() has done it zero times; it is
\* never done twice and never before the exit label.
C8_TeardownAtExitOnly ==
    /\ pc = "done" => teardown = 1
    /\ pc # "done" => teardown = 0

C8_Witness ==
    /\ pc = "fatal"
    /\ Last(reports) = "Write error"
    /\ Len(log) > 0
    /\ teardown = 0

\* C9: after a transport call has failed no further command frame or data
\* phase is issued, and the buffer of a failed receive is not forwarded to
\* the output.
C9_FailStop ==
    /\ ~afterFail
    /\ ~staleOut

\* C10: with no transport fault, a parameter write that read its payload
\* ends after exactly eight WRITELBA windows at offsets 0, 0x400, ..., 0x1C00, whose data phases are
\* the same RKFT_BLOCKSIZE bytes: magic, little-endian length, payload, and
\* the CRC32 of the payload right behind it.
C10_ParamReplicas ==
    ( /\ action = "P"
      /\ pc = "done"
      /\ nfail = 0
      /\ ~Reported("read error") )
    =>  /\ Len(log) = 2 + (3 * 8)
        /\ \A k \in 0..7 :
              /\ log[3 + (3 * k)].k = "cbw"
              /\ log[3 + (3 * k)].op = RKFT_CMD_WRITELBA
              /\ log[3 + (3 * k)].off = k * 1024
              /\ log[3 + (3 * k)].len = RKFT_OFF_INCR
              /\ log[4 + (3 * k)].k = "send"
              /\ log[4 + (3 * k)].n = RKFT_BLOCKSIZE
              /\ log[4 + (3 * k)].data = log[4].data
        /\ LET d == log[4].data
               n == Len(written)
           IN  /\ SubSeq(d, 1, 4) = STR_PARM
               /\ LE32Int(SubSeq(d, 5, 8)) = n
               /\ SubSeq(d, 9, 8 + n) = written
               /\ 8 + n + 4 <= Len(d)
               /\ SubSeq(d, 9 + n, 12 + n) = PUT32LE(rkcrc32(CRC_ZERO, written))

\* The n bytes of a frame at byte position at (counted from 0).
Field(f, at, n) == SubSeq(f, at + 1, at + n)

ZeroAt(f, positions) == \A i \in positions : f[i + 1] = 0

\* What both kinds of command frame have in common.
FrameHead(e) ==
    /\ Len(e.frame) = CBW_LEN
    /\ e.n = CBW_LEN
    /\ Field(e.frame, 0, 4) = STR_USBC
    /\ Field(e.frame, 4, 4) = BE32Bytes(e.tag)
    /\ Field(e.frame, 12, 4) = OpCode(e.op)
    /\ Field(e.frame, 17, 4) = BE32Bytes(e.off)

\* The layout of the frames send_cbw sends.
CbwLayout(e) ==
    /\ FrameHead(e)
    /\ e.frame[17] = e.flag
    /\ Field(e.frame, 22, 2) = BE16Bytes(e.len)
    /\ ZeroAt(e.frame, (8..11) \cup {21} \cup (24..30))

C12_LoaderStream ==
    ( /\ action \in {"l", "L"}
      /\ pc = "done"
      /\ nfail = 0 )
    =>  /\ Len(log) >= 1
        /\ \A i \in 1..Len(log) :
              /\ log[i].k = "ctl"
              /\ log[i].off = LoaderIndex
        /\ \A i \in 1..(Len(log) - 1) :
              /\ log[i].n = LOADER_CHUNK
              /\ log[i].data = InBytes((i - 1) * LOADER_CHUNK, LOADER_CHUNK)
        /\ LET sent == (Len(log) - 1) * LOADER_CHUNK
           IN  /\ sent <= inLen
               /\ LastEv.n = (inLen - sent) + 2
               /\ LastEv.data =
                     InBytes(sent, inLen - sent)
                        \o rkcrc16(<< 255, 255 >>, InBytes(0, inLen))

NandQuery == {"nand_cbw", "nand_buf", "nand_csw"}

\* C13: a '-' that is not the size field of the requested partition does not
\* select the to-end-of-NAND rule.  On the table
\* mtdparts=rk-nand:0x40@0x2000(boot),0x80@0x4000(system), whose only '-' is
\* in the device name, "boot" resolves to size 0x40 (':' form) and "system"
\* to size 0x80 (',' form) without a NAND-info query; on
\* mtdparts=x:0x40@0x2000(boot),-@0x6000(system) "system" resolves to the
\* rest of the NAND.
C13_SizeFormPrecedence ==
    /\ (ResolvedOn(BlobDash) /\ partname \in {NAME_BOOT, NAME_SYSTEM}) =>
          /\ pc \notin NandQuery
          /\ resolveLog = -1
          /\ \A i \in 1..Len(log) : log[i].op # RKFT_CMD_READFLASHINFO
          /\ pc = "action" =>
                IF partname = NAME_BOOT THEN offset = 8192 /\ size = 64
                ELSE offset = 16384 /\ size = 128
    /\ (ResolvedOn(BlobMtd) /\ partname = NAME_SYSTEM /\ pc = "action") =>
          size = dev.flashSize - 24576

\* C14: once a read of the flash write loop has yielded between 1 and
\* RKFT_BLOCKSIZE - 1 bytes, no write window later than the one of that read
\* is issued, and the run, when it has ended without a transport fault, has
\* reported the premature end of input and ended through the exit label
\* with the teardown done.
C14_ShortWindowStops ==
    (action = "w" /\ shortAt # -1) =>
        /\ WriteFrames <= shortAt + 1
        /\ (pc \in Terminal /\ nfail = 0) =>
              /\ pc = "done"
              /\ teardown = 1
              /\ exitcode = 0
              /\ Reported("premature")

\* The block b passes the checks of the parameter decode: its length field
\* is in range and the trailer behind the payload is the CRC32 of the payload.
BlobVerified(b) ==
    LET n == LE32Int(SubSeq(b, 5, 8))
    IN  /\ ~BadLength(n)
        /\ n + 12 <= Len(b)
        /\ GET32LE(SubSeq(b, 9 + n, 12 + n)) = rkcrc32(CRC_ZERO, SubSeq(b, 9, 8 + n))

\* C15: when a partition name is given and the parameter block of the device
\* does not pass the length and CRC32 checks, no flash read or write command
\* frame is sent besides the one that fetched the parameter block (the
\* third transfer of the run), whatever the block's table says.
C15_VerifiedBlobOnly ==
    ( /\ partname # << >>
      /\ nfail = 0
      /\ ~BlobVerified(dev.param) )
    =>  \A i \in 1..Len(log) :
            ( /\ log[i].k = "cbw"
              /\ log[i].op \in {RKFT_CMD_READLBA, RKFT_CMD_WRITELBA} )
            => i = 3

\* The first unit behind the requested range, as the command frames of the
\* flow count it (RAM frames carry offset - SDRAM_BASE_ADDRESS).
RangeEnd ==
    IF action = "M" THEN Sub32(offset0, SDRAM_BASE_ADDRESS) + size0
    ELSE offset0 + size0

\* C16: with no transport fault, every write command frame of 'w', 'e' and
\* 'M' covers only units inside the requested range: its offset plus its
\* length does not exceed the start offset plus the count the flow started
\* with.
C16_WritesInRange ==
    (action \in {"w", "e", "M"} /\ nfail = 0) =>
        \A i \in 1..Len(log) :
            IsWriteCbw(log[i]) => log[i].off + log[i].len <= RangeEnd

\* C17: with no transport fault, no flow accesses memory outside the buffer
\* it uses: no receive into or send from buf is longer than RKFT_BLOCKSIZE
\* (the ID-block read of a full window included), and neither the trailer
\* the parameter write stores nor the trailer the parameter read compares
\* lies behind the end of buf.
C17_BufferBounds ==
    nfail = 0 =>
        /\ ~ub
        /\ \A i \in 1..Len(log) :
              /\ log[i].k = "recv" => log[i].n <= RKFT_BLOCKSIZE
              /\ (log[i].k = "send" /\ action # "j") => log[i].n <= RKFT_BLOCKSIZE
        /\ (action = "P" /\ pc = "P_cbw") => 8 + sizeRead + 4 <= RKFT_BLOCKSIZE
        /\ (action = "p" /\ pc = "p_crc") => 8 + size + 4 <= RKFT_BLOCKSIZE

IsCommand(e) == e.k \in {"cbw", "exec"}

IsData(e) == e.k \in {"recv", "send"}

\* C18: the transfers of a run are a sequence of exchanges, each a command
\* frame, at most one data phase, and the status receive: a command frame is
\* never followed by another command frame, a data phase directly follows
\* the command frame of its exchange and is directly followed by the status
\* receive, a status receive closes an open exchange, and when the teardown
\* is done no exchange is open.
C18_Alternation ==
    /\ \A i \in 1..Len(log) :
          /\ IsCommand(log[i]) =>
                (i = Len(log) \/ IsData(log[i + 1]) \/ log[i + 1].k = "csw")
          /\ IsData(log[i]) =>
                /\ i > 1
                /\ IsCommand(log[i - 1])
                /\ (i = Len(log) \/ log[i + 1].k = "csw")
          /\ log[i].k = "csw" =>
                /\ i > 1
                /\ (IsCommand(log[i - 1]) \/ IsData(log[i - 1]))
          /\ log[i].k = "ctl" => action \in {"l", "L"}
    /\ pc \in {"exit", "done"} =>
          (Len(log) = 0 \/ LastEv.k \in {"csw", "ctl"})

C18_Witness ==
    /\ action = "n"
    /\ pc = "done"
    /\ teardown = 1
    /\ Len(log) = 8
    /\ log[3].k = "cbw"
    /\ log[4].k = "recv"
    /\ log[5].k = "csw"
    /\ log[6].k = "cbw"

\* The opcodes of the flow of an action.
FlowOps(a) ==
    CASE a = "b" -> {RKFT_CMD_RESETDEVICE}
      [] a \in {"r", "p"} -> {RKFT_CMD_READLBA}
      [] a \in {"w", "e", "P"} -> {RKFT_CMD_WRITELBA}
      [] a = "m" -> {RKFT_CMD_READSDRAM}
      [] a = "M" -> {RKFT_CMD_WRITESDRAM}
      [] a = "B" -> {RKFT_CMD_EXECUTESDRAM}
      [] a = "i" -> {RKFT_CMD_READSECTOR}
      [] a = "j" -> {RKFT_CMD_WRITESECTOR}
      [] a = "v" -> {RKFT_CMD_READCHIPINFO}
      [] a = "n" -> {RKFT_CMD_READFLASHID, RKFT_CMD_READFLASHINFO}
      [] OTHER -> {}

\* The command frame at position i of the log belongs to the partition
\* resolution: the read of the parameter block, or the NAND-info query
\* right after it.
IsResolveFrame(i) ==
    /\ partname # << >>
    /\ \/ i = 3 /\ log[i].op = RKFT_CMD_READLBA /\ log[i].off = 0
       \/ i = 6 /\ log[i].op = RKFT_CMD_READFLASHINFO

\* C19: in a run of an action other than 'l' and 'L' the first transfer is
\* the TESTUNITREADY command frame and the second its status receive, no
\* resolution or action step is taken before both, and every later command
\* frame belongs to the partition resolution or to the flow of the action
\* given; a run of 'l' or 'L' issues control transfers only.
C19_DispatchOrder ==
    /\ action \in {"l", "L"} => \A i \in 1..Len(log) : log[i].k = "ctl"
    /\ action \notin {"l", "L"} =>
          /\ Len(log) >= 1 =>
                (log[1].k = "cbw" /\ log[1].op = RKFT_CMD_TESTUNITREADY)
          /\ Len(log) >= 2 => log[2].k = "csw"
          /\ pc \notin {"start", "probe_cbw", "probe_csw"} => Len(log) >= 2
          /\ pc \in {"start", "probe_cbw"} => Len(log) = 0
          /\ \A i \in 3..Len(log) :
                /\ log[i].k # "ctl"
                /\ IsCommand(log[i]) =>
                      (log[i].op \in FlowOps(action) \/ IsResolveFrame(i))
                /\ (IsCommand(log[i]) /\ i < 6 /\ partname # << >>) =>
                      IsResolveFrame(i)

C19_Witness ==
    /\ action = "e"
    /\ partname = NAME_SYSTEM
    /\ pc = "done"
    /\ Len(log) > 8
    /\ log[1].op = RKFT_CMD_TESTUNITREADY
    /\ log[3].op = RKFT_CMD_READLBA
    /\ log[6].op = RKFT_CMD_READFLASHINFO
    /\ log[9].op = RKFT_CMD_WRITELBA

\* The actions whose flow is a transfer loop with a progress line per pass.
LoopActions == {"r", "w", "e", "P", "m", "M", "i", "j"}

\* The offsets of the windows the loop of the action has asked for, in the
\* order sent (the frames after the probe and the partition resolution), as
\* values of the variable offset: a RAM frame carries the offset less
\* SDRAM_BASE_ADDRESS.
LoopOffsets ==
    LET idx == { i \in 3..Len(log) :
                    /\ IsCommand(log[i])
                    /\ log[i].op \in FlowOps(action)
                    /\ ~IsResolveFrame(i) }
        At(n) == IF action \in {"m", "M"}
                 THEN Add32(log[n].off, SDRAM_BASE_ADDRESS) ELSE log[n].off
        F[n \in 0..Len(log)] ==
            IF n = 0 THEN << >>
            ELSE IF n \in idx THEN Append(F[n - 1], At(n)) ELSE F[n - 1]
    IN  F[Len(log)]

StrictlyIncreasing(s) ==
    \A i \in 1..(Len(s) - 1) : s[i] < s[i + 1]

\* C20: in every transfer loop the progress lines and the windows
\* transferred correspond one to one: when the run has ended the offsets
\* reported are exactly the offsets of the command frames of the loop, in
\* order, also when the input ended prematurely, and they strictly increase.
C20_ProgressPerWindow ==
    (action \in LoopActions /\ nfail = 0) =>
        /\ StrictlyIncreasing(progress)
        /\ Len(LoopOffsets) <= Len(progress)
        /\ Len(progress) <= Len(LoopOffsets) + 1
        /\ pc \in {"exit", "done"} => progress = LoopOffsets

\* A unit built from the r bytes read last and the byte f everywhere else.
PaddedUnit(r, f) ==
    InBytes(inPos - r, r) \o Rep(f, RKFT_IDB_BLOCKSIZE - r)

\* C21: every unit sent by the ID-block write flow has the fixed ID-block
\* size, begins with the bytes read from the input in that pass, and holds
\* one fill byte in every other place (the rest of the data area after a
\* short read, and the tail), so nothing of an earlier unit is left in it.
C21_IdbPadding ==
    (action = "j" /\ pc = "j_csw" /\ nfail = 0 /\ nio = 0) =>
        /\ LastEv.k = "send"
        /\ LastEv.n = RKFT_IDB_BLOCKSIZE
        /\ \E r \in 1..RKFT_IDB_DATASIZE : \E f \in 0..255 :
              /\ r <= inPos
              /\ LastEv.data = PaddedUnit(r, f)

\* The heads of the transfer loops that count size down.
LoopHeads ==
    {"r_head", "w_head", "e_head", "m_head", "M_head", "i_head", "j_head"}

\* A step back to the head of a transfer loop from inside its body.
BackEdge ==
    /\ pc' \in LoopHeads
    /\ pc \notin {"action", "e_fill"} \cup LoopHeads

\* Each pass of a transfer loop that goes on leaves less to do: size falls
\* and was positive, the parameter loop moves towards PARAM_END, a loader
\* pass has consumed input.
LoopMeasureFalls ==
    /\ BackEdge => (size > 0 /\ size' < size)
    /\ (pc = "P_csw" /\ pc' = "P_cbw") => (offset < offset' /\ offset' < PARAM_END)
    /\ (pc = "ld_ctl" /\ pc' = "ld_read") => inPos > 0

C22_LoopsCountDown == [][LoopMeasureFalls]_vars

SendEvents == { i \in 1..Len(log) : log[i].k = "send" }

\* C23: every data phase of the erase flow is one full window of 0xFF
\* bytes, and buf holds that window from the fill before the loop to the end
\* of the loop, also when the partition resolution has received the
\* parameter block and the NAND info into buf before.
C23_EraseContent ==
    action = "e" =>
        /\ \A i \in SendEvents :
              /\ log[i].n = RKFT_BLOCKSIZE
              /\ log[i].data = Rep(ERASE_BYTE, RKFT_BLOCKSIZE)
        /\ pc \in {"e_head", "e_cbw", "e_buf", "e_csw"} =>
              buf = Rep(ERASE_BYTE, RKFT_BLOCKSIZE)

C23_Witness ==
    /\ action = "e"
    /\ partname = NAME_SYSTEM
    /\ pc = "done"
    /\ Len(log) > 13
    /\ log[4].k = "recv"
    /\ log[6].op = RKFT_CMD_READFLASHINFO
    /\ log[7].k = "recv"
    /\ log[10].k = "send"
    /\ log[13].k = "send"
    /\ log[13].data = Rep(ERASE_BYTE, RKFT_BLOCKSIZE)

\* C24: the content of the status frames has no influence on a run: of two
\* runs of the same command line on the same input and the same device
\* answers, in which every call succeeds, whatever status frames each of
\* them receives (tag, residue, status byte), the second issues at every
\* point the calls the first issued, with the same frames and data, and ends
\* as the first did: same calls, same output, same messages, same outcome
\* and exit code.
C24_StatusIgnored ==
    (twin.n = 1 /\ run = 1) =>
        /\ Len(log) <= Len(twin.obs.log)
        /\ log = SubSeq(twin.obs.log, 1, Len(log))
        /\ pc \in Terminal => Obs = twin.obs

C24_Witness ==
    /\ twin.n = 1
    /\ action = "r"
    /\ pc = "done"
    /\ exitcode = 0
    /\ Len(out) = 3 * RKFT_BLOCKSIZE
    /\ twin.csw[CSW_LEN] = 0
    /\ csw[CSW_LEN] = 1
    /\ csw # twin.csw
    /\ Obs = twin.obs

=============================================================================
